---- MODULE Spec2Model ----
(***************************************************************************)
(* A model of src/src/bt.rs: the bencoding decoder (Bencoding::from_slice  *)
(* and the nom productions behind it) and the NodeId XOR distance.         *)
(*                                                                         *)
(* Bytes are the integers 0..255, a byte slice is a sequence of bytes, a   *)
(* Rust String is the sequence of its Unicode scalar values.  A nom        *)
(* IResult is a record: Ok(rest, val), or Err(kind) with kind "Error" or   *)
(* "Incomplete" (nom's Err::Failure is never built by this code).          *)
(***************************************************************************)
EXTENDS Integers, Sequences, FiniteSets, TLC

VARIABLES
    input,      \* the byte slice handed to the function under call
    pc,         \* "start", "build", "idle", "list_loop", "dict_loop", "node", "done"
    op,         \* the function that was called on input
    c_input,    \* parse_list / parse_dictionary: the loop's cursor
    elems,      \* parse_list: the Vec built so far
    dict,       \* parse_dictionary: the HashMap built so far
    res,        \* what the call returned
    tree,       \* the syntax tree the input was written from (NoTree: raw bytes)
    self,       \* NodeId: the receiver of distance / closest
    node_ids,   \* NodeId: the candidates
    out         \* NodeId: what distance / closest returned

vars == <<input, pc, op, c_input, elems, dict, res, tree, self, node_ids, out>>

(***************************************************************************)
(* Bounds of the model.                                                    *)
(***************************************************************************)
MaxLen == 4         \* Spec: every byte string over Alphabet up to this length
MaxLiveLen == 4     \* SpecLive: every byte string over LiveAlphabet up to it
MaxWire == 15       \* SpecTree: encodings up to this many bytes
MaxCand == 3        \* SpecNode: candidate sequences up to this length

(***************************************************************************)
(* The bytes the code names.                                               *)
(***************************************************************************)
ByteMinus == 45
ByteColon == 58
ByteD == 100
ByteE == 101
ByteI == 105
ByteL == 108
Digit0 == 48
Digit9 == 57
ReplacementChar == 65533
IdLen == 20

\* Spec's inputs: the six structural bytes, two digits, and 0xFF, a byte
\* that is never part of well-formed UTF-8.
Alphabet == {ByteI, ByteL, ByteD, ByteE, ByteColon, ByteMinus, Digit0, Digit0 + 1, 255}

Drop(s, n) == SubSeq(s, n + 1, Len(s))
Take(s, n) == SubSeq(s, 1, n)

(***************************************************************************)
(* The value type and nom's results.                                       *)
(***************************************************************************)
BString(s) == [tag |-> "String", s |-> s]
BInteger(n) == [tag |-> "Integer", n |-> n]
BList(es) == [tag |-> "List", elems |-> es]
BDictionary(d) == [tag |-> "Dictionary", dict |-> d]

\* x, evaluated once, handed to F: Rust's  match x { v => F(v) }.
Once(x, F(_)) == CHOOSE y \in {F(v) : v \in {x}} : TRUE

Ok(rest, val) == [ok |-> TRUE, rest |-> rest, val |-> val]
Err(kind) == [ok |-> FALSE, err |-> kind]
ParseError == Err("Error")
ParseIncomplete == Err("Incomplete")

\* A faulty insert, for comparison: a key that is present keeps its value.
InsertKeepFirst(map, key, value) ==
    [x \in DOMAIN map \cup {key} |-> IF x \in DOMAIN map THEN map[x] ELSE value]

\* HashMap::insert: the new value replaces the one the key had.
Insert(map, key, value) ==
    [x \in DOMAIN map \cup {key} |-> IF x = key THEN value ELSE map[x]]
EmptyMap == <<>>

(***************************************************************************)
(* nom's combinators, as this code uses them.                              *)
(***************************************************************************)
\* bytes::complete::tag of one byte: Error on a mismatch and on empty input.
TagComplete(b, i) ==
    IF Len(i) >= 1 /\ i[1] = b THEN Ok(Drop(i, 1), <<b>>) ELSE ParseError

\* The tag! macro of named! is the streaming tag: empty input is Incomplete.
TagStreaming(b, i) ==
    IF Len(i) = 0 THEN ParseIncomplete
    ELSE IF i[1] = b THEN Ok(Drop(i, 1), <<b>>) ELSE ParseError

\* combinator::opt: an Error becomes Ok(None) on the same input.
Opt(r, i) ==
    Once(r, LAMBDA v : IF v.ok THEN v ELSE IF v.err = "Error" THEN Ok(i, <<>>) ELSE v)

\* combinator::complete: Incomplete becomes Error.
Complete(r) ==
    Once(r, LAMBDA v : IF ~v.ok /\ v.err = "Incomplete" THEN ParseError ELSE v)

IsDigit(b) == Digit0 <= b /\ b <= Digit9

\* The length of the longest prefix of i made of digits.
DigitPrefixLen(i) ==
    LET stops == {k \in 1..Len(i) : ~IsDigit(i[k])}
    IN  IF stops = {} THEN Len(i)
        ELSE (CHOOSE k \in stops : \A j \in stops : k <= j) - 1

\* bytes::complete::take_while1(is_digit): Error when no digit leads.
TakeWhile1Digit(i) ==
    LET n == DigitPrefixLen(i)
    IN  IF n = 0 THEN ParseError ELSE Ok(Drop(i, n), Take(i, n))

\* Faulty variants of take(n), for comparison: one byte too many; and as many bytes as there are.
TakeNPlusOne(n, i) ==
    IF Len(i) < n + 1 THEN ParseError ELSE Ok(Drop(i, n + 1), Take(i, n + 1))

TakeNTruncating(n, i) ==
    IF Len(i) < n THEN Ok(<<>>, i) ELSE Ok(Drop(i, n), Take(i, n))

\* bytes::complete::take(n): Error when fewer than n bytes are left.
TakeN(n, i) == IF Len(i) < n THEN ParseError ELSE Ok(Drop(i, n), Take(i, n))

\* BigInt::from_str on [-]digit+: the decimal value, negated under a sign.
RECURSIVE DecimalValue(_)
DecimalValue(ds) ==
    IF Len(ds) = 0 THEN 0
    ELSE 10 * DecimalValue(Take(ds, Len(ds) - 1)) + (ds[Len(ds)] - Digit0)

\* A faulty variant, for comparison: the sign is dropped.
BigIntFromStrUnsigned(sign, ds) == DecimalValue(ds)

BigIntFromStr(sign, ds) ==
    IF sign = <<ByteMinus>> THEN 0 - DecimalValue(ds) ELSE DecimalValue(ds)

\* String::from_utf8_lossy on the bytes the model draws: an ASCII byte is
\* its own character, a lead byte 0xC2..0xDF followed by a continuation
\* byte 0x80..0xBF is one two-byte character, and any other byte at the
\* head is by itself a maximal ill-formed sequence and becomes U+FFFD.
\* (Lead bytes 0xE0..0xF4 of longer sequences are outside the model.)
RECURSIVE FromUtf8Lossy(_)
FromUtf8Lossy(bs) ==
    IF Len(bs) = 0 THEN <<>>
    ELSE IF bs[1] < 128 THEN <<bs[1]>> \o FromUtf8Lossy(Drop(bs, 1))
    ELSE IF /\ 194 <= bs[1] /\ bs[1] <= 223
            /\ Len(bs) >= 2 /\ 128 <= bs[2] /\ bs[2] <= 191
         THEN <<(bs[1] - 192) * 64 + (bs[2] - 128)>> \o FromUtf8Lossy(Drop(bs, 2))
    ELSE <<ReplacementChar>> \o FromUtf8Lossy(Drop(bs, 1))

(***************************************************************************)
(* The productions.  Rust's  let (input, x) = p(input)?;  is AndThen: an   *)
(* Err is returned as it is, an Ok hands its rest and value on.            *)
(***************************************************************************)
AndThen(r, K(_)) == Once(r, LAMBDA v : IF v.ok THEN K(v) ELSE v)

ParseBigint(i) ==
    AndThen(Opt(TagComplete(ByteMinus, i), i), LAMBDA s :
    AndThen(TakeWhile1Digit(s.rest), LAMBDA d :
    Ok(d.rest, BigIntFromStr(s.val, d.val))))

ParseEnd(i) == TagStreaming(ByteE, i)

ParseInteger(i) ==
    AndThen(TagComplete(ByteI, i), LAMBDA t :
    AndThen(ParseBigint(t.rest), LAMBDA n :
    AndThen(ParseEnd(n.rest), LAMBDA e :
    Ok(e.rest, BInteger(n.val)))))

\* n.try_into() into u32.  The upper limit 2^32 - 1 needs a ten-digit
\* prefix, longer than any input of the model (and take(n) fails on such
\* a prefix anyway, with the same Error).
FitsU32(n) == n >= 0

ParseString(i) ==
    AndThen(ParseBigint(i), LAMBDA n :
    IF n.val < 0 THEN ParseError
    ELSE IF ~FitsU32(n.val) THEN ParseError
    ELSE AndThen(TagComplete(ByteColon, n.rest), LAMBDA c :
         AndThen(TakeN(n.val, c.rest), LAMBDA s :
         Ok(s.rest, BString(FromUtf8Lossy(s.val))))))

RECURSIVE Parse(_), ParseList(_), ParseDictionary(_), ListLoop(_, _), DictLoop(_, _)

\* The match on parse_end at the head of both loops: Ok leaves the loop
\* with the value built, Error goes on to the element, and any other Err
\* (Incomplete, on empty input) is returned.
Returns(r) == [loop |-> FALSE, ret |-> r]
Loops(c, acc) == [loop |-> TRUE, c |-> c, acc |-> acc]

AtEnd(e, built, body) ==
    Once(e, LAMBDA v :
        IF v.ok THEN Returns(Ok(v.rest, built))
        ELSE IF v.err # "Error" THEN Returns(v)
        ELSE body)

OrReturn(r, K(_)) == Once(r, LAMBDA v : IF v.ok THEN K(v) ELSE Returns(v))

\* One pass of parse_list's loop from cursor c with es collected: the
\* record says whether the loop goes on (and with what) or returns.
ListIter(c, es) ==
    AtEnd(ParseEnd(c), BList(es),
          OrReturn(Parse(c), LAMBDA p : Loops(p.rest, Append(es, p.val))))

Continue(it, Loop(_, _)) ==
    Once(it, LAMBDA v : IF v.loop THEN Loop(v.c, v.acc) ELSE v.ret)

ListLoop(c, es) == Continue(ListIter(c, es), ListLoop)

\* A faulty variant, for comparison: parse_list opens on the dictionary's tag.
ParseListTagD(i) ==
    AndThen(TagComplete(ByteD, i), LAMBDA t : ListLoop(t.rest, <<>>))

ParseList(i) ==
    AndThen(TagComplete(ByteL, i), LAMBDA t : ListLoop(t.rest, <<>>))

\* One pass of parse_dictionary's loop.  parse_string only ever returns
\* Bencoding::String, so the match on wrapped_key always takes its key.
DictIter(c, d) ==
    AtEnd(ParseEnd(c), BDictionary(d),
          OrReturn(ParseString(c), LAMBDA k :
          OrReturn(Parse(k.rest), LAMBDA v :
          Loops(v.rest, Insert(d, k.val.s, v.val)))))

DictLoop(c, d) == Continue(DictIter(c, d), DictLoop)

ParseDictionary(i) ==
    AndThen(TagComplete(ByteD, i), LAMBDA t : DictLoop(t.rest, EmptyMap))

\* One of the four productions, by name, under combinator::complete.
Production(name, i) ==
    CASE name = "integer" -> Complete(ParseInteger(i))
      [] name = "list" -> Complete(ParseList(i))
      [] name = "dictionary" -> Complete(ParseDictionary(i))
      [] name = "string" -> Complete(ParseString(i))

\* branch::alt over the productions in the order given: the first Ok is
\* the result, an Error moves on to the next alternative on the same
\* input, any other Err is returned at once, and Error is what is left
\* when every alternative has failed.
OrElse(r, others) ==
    Once(r, LAMBDA v : IF v.ok THEN v ELSE IF v.err # "Error" THEN v ELSE others)

RECURSIVE Alt(_, _)
Alt(order, i) ==
    IF Len(order) = 0 THEN ParseError
    ELSE OrElse(Production(order[1], i), Alt(Drop(order, 1), i))

ParseOrder == <<"integer", "list", "dictionary", "string">>

Parse(i) == Alt(ParseOrder, i)

\* from_slice: Some(value) or None for Err(BencodingParseError).
\* A faulty variant, for comparison: the leftovers are not looked at.
LeftoversIgnored(r) ==
    Once(r, LAMBDA v : IF v.ok THEN [ok |-> TRUE, val |-> v.val] ELSE [ok |-> FALSE])

Leftovers(r) ==
    Once(r, LAMBDA v :
        IF v.ok
        THEN IF Len(v.rest) = 0 THEN [ok |-> TRUE, val |-> v.val] ELSE [ok |-> FALSE]
        ELSE [ok |-> FALSE])

FromSlice(i) == Leftovers(Parse(i))

(***************************************************************************)
(* NodeId.  A BigUint is its big-endian bytes without leading zero bytes   *)
(* (the empty sequence is zero), which is the value from_bytes_be reads.   *)
(***************************************************************************)
RECURSIVE StripZeros(_)
StripZeros(bs) ==
    IF Len(bs) > 0 /\ bs[1] = 0 THEN StripZeros(Drop(bs, 1)) ELSE bs

FromBytesBe(bs) == StripZeros(bs)

\* A faulty variant, for comparison: the inclusive or.
RECURSIVE OrBits(_, _, _)
OrBits(a, b, n) ==
    IF n = 0 THEN 0
    ELSE (IF (a % 2) + (b % 2) > 0 THEN 1 ELSE 0) + 2 * OrBits(a \div 2, b \div 2, n - 1)

\* The exclusive or of two bytes, bit by bit.
RECURSIVE XorBits(_, _, _)
XorBits(a, b, n) ==
    IF n = 0 THEN 0
    ELSE (((a % 2) + (b % 2)) % 2) + 2 * XorBits(a \div 2, b \div 2, n - 1)

XorByte(a, b) == XorBits(a, b, 8)

\* BigUint ^ BigUint: the shorter operand is extended with zero bytes at
\* its high end, and the result is normalized.
PadTo(bs, n) == [k \in 1..(n - Len(bs)) |-> 0] \o bs

BitXor(x, y) ==
    LET n == IF Len(x) >= Len(y) THEN Len(x) ELSE Len(y)
        px == PadTo(x, n)
        py == PadTo(y, n)
    IN  StripZeros([k \in 1..n |-> XorByte(px[k], py[k])])

\* BigUint::cmp: "Less", "Equal" or "Greater"; more bytes is greater, and
\* equal lengths compare from the high byte down.
BigCmp(x, y) ==
    IF Len(x) # Len(y) THEN (IF Len(x) < Len(y) THEN "Less" ELSE "Greater")
    ELSE LET diff == {k \in 1..Len(x) : x[k] # y[k]}
         IN  IF diff = {} THEN "Equal"
             ELSE LET k == CHOOSE j \in diff : \A m \in diff : j <= m
                  IN  IF x[k] < y[k] THEN "Less" ELSE "Greater"

Distance(a, b) == BitXor(FromBytesBe(a), FromBytesBe(b))

\* A faulty variant, for comparison: the comparison is turned around.
RECURSIVE MinByReversed(_, _)
MinByReversed(best, ps) ==
    IF Len(ps) = 0 THEN best
    ELSE MinByReversed(IF BigCmp(best[2], ps[1][2]) = "Less" THEN ps[1] ELSE best,
                       Drop(ps, 1))

\* Iterator::min_by over the (index, distance) pairs ps, best being the
\* minimum so far: the next pair replaces it only when best is Greater.
RECURSIVE MinBy(_, _)
MinBy(best, ps) ==
    IF Len(ps) = 0 THEN best
    ELSE MinBy(IF BigCmp(best[2], ps[1][2]) = "Greater" THEN ps[1] ELSE best,
               Drop(ps, 1))

\* The index min_by returns on the enumerated distances (ids not empty).
Enumerated(a, ids) == [n \in 1..Len(ids) |-> <<n, Distance(a, ids[n])>>]

ClosestIndex(a, ids) ==
    Once(Enumerated(a, ids), LAMBDA ps : MinBy(ps[1], Drop(ps, 1))[1])

Closest(a, ids) == IF Len(ids) = 0 THEN a ELSE ids[ClosestIndex(a, ids)]

(***************************************************************************)
(* The inputs.  Spec decodes every byte string over Alphabet up to MaxLen  *)
(* bytes.  SpecTree decodes what is written, by the wire grammar, from a   *)
(* syntax tree: an integer literal, a string, a list of trees, or a        *)
(* dictionary given as its sequence of key / tree pairs, where a key may   *)
(* come more than once.                                                    *)
(***************************************************************************)
StringsOver(A, n) == UNION {[1..k -> A] : k \in 0..n}
ByteStrings(n) == StringsOver(Alphabet, n)

NoTree == [tag |-> "None"]
NoResult == [ok |-> FALSE, err |-> "NotCalled"]

\* An integer literal of value n: plain, padded with a zero, or (n = 0)
\* written as -0.
IntT(n, form) == [tag |-> "Integer", n |-> n, form |-> form]
StrT(s) == [tag |-> "String", s |-> s]
ListT(ts) == [tag |-> "List", elems |-> ts]
DictT(ps) == [tag |-> "Dictionary", pairs |-> ps]

\* The texts of the model: empty, "e", and U+00E9, two bytes in UTF-8.
Texts == {<<>>, <<ByteE>>, <<233>>}

LeafTrees ==
    {IntT(0, "negzero"), IntT(0 - 1, "plain"), IntT(10, "plain"), IntT(7, "padded")}
    \cup {StrT(t) : t \in Texts}

RECURSIVE DecimalDigits(_)
DecimalDigits(n) ==
    IF n < 10 THEN <<Digit0 + n>>
    ELSE DecimalDigits(n \div 10) \o <<Digit0 + (n % 10)>>

RECURSIVE Utf8(_)
Utf8(s) ==
    IF Len(s) = 0 THEN <<>>
    ELSE (IF s[1] < 128 THEN <<s[1]>>
          ELSE <<192 + (s[1] \div 64), 128 + (s[1] % 64)>>) \o Utf8(Drop(s, 1))

WireString(s) == DecimalDigits(Len(Utf8(s))) \o <<ByteColon>> \o Utf8(s)

WireInteger(t) ==
    <<ByteI>>
    \o (IF t.n < 0 \/ t.form = "negzero" THEN <<ByteMinus>> ELSE <<>>)
    \o (IF t.form = "padded" THEN <<Digit0>> ELSE <<>>)
    \o DecimalDigits(IF t.n < 0 THEN 0 - t.n ELSE t.n)
    \o <<ByteE>>

RECURSIVE Wire(_), WireAll(_), WirePairs(_)
Wire(t) ==
    CASE t.tag = "Integer" -> WireInteger(t)
      [] t.tag = "String" -> WireString(t.s)
      [] t.tag = "List" -> <<ByteL>> \o WireAll(t.elems) \o <<ByteE>>
      [] t.tag = "Dictionary" -> <<ByteD>> \o WirePairs(t.pairs) \o <<ByteE>>

WireAll(ts) == IF Len(ts) = 0 THEN <<>> ELSE Wire(ts[1]) \o WireAll(Drop(ts, 1))

WirePairs(ps) ==
    IF Len(ps) = 0 THEN <<>>
    ELSE WireString(ps[1][1]) \o Wire(ps[1][2]) \o WirePairs(Drop(ps, 1))

(***************************************************************************)
(* The state machine.                                                      *)
(***************************************************************************)
Idle(i, t) ==
    /\ input = i
    /\ tree = t
    /\ op = "none"
    /\ c_input = <<>>
    /\ elems = <<>>
    /\ dict = EmptyMap
    /\ res = NoResult
    /\ self = <<>>
    /\ node_ids = <<>>
    /\ out = <<>>

Init == \E i \in ByteStrings(MaxLen) : pc = "idle" /\ Idle(i, NoTree)

\* A call of a function that returns in one step.
Return(name, r) ==
    /\ pc = "idle"
    /\ pc' = "done"
    /\ op' = name
    /\ res' = r
    /\ UNCHANGED <<input, c_input, elems, dict, tree, self, node_ids, out>>

CallFromSlice == Return("from_slice", FromSlice(input))
CallParse == Return("parse", Parse(input))
CallParseInteger == Return("parse_integer", ParseInteger(input))
CallParseString == Return("parse_string", ParseString(input))

\* parse_list up to its loop: the tag, and the empty Vec.
ListBegun(t) ==
    IF t.ok
    THEN pc' = "list_loop" /\ c_input' = t.rest /\ res' = res
    ELSE pc' = "done" /\ c_input' = c_input /\ res' = t

ParseListBegin ==
    /\ pc = "idle"
    /\ op' = "parse_list"
    /\ ListBegun(TagComplete(ByteL, input))
    /\ UNCHANGED <<input, elems, dict, tree, self, node_ids, out>>

\* A faulty variant, for comparison: the cursor is not moved to the leftovers.
ListStepStuck(it) ==
    IF it.loop
    THEN pc' = pc /\ c_input' = c_input /\ elems' = it.acc /\ res' = res
    ELSE pc' = "done" /\ c_input' = c_input /\ elems' = elems /\ res' = it.ret

\* One pass of parse_list's loop.
ListStep(it) ==
    IF it.loop
    THEN pc' = pc /\ c_input' = it.c /\ elems' = it.acc /\ res' = res
    ELSE pc' = "done" /\ c_input' = c_input /\ elems' = elems /\ res' = it.ret

ParseListIter ==
    /\ pc = "list_loop"
    /\ ListStep(ListIter(c_input, elems))
    /\ UNCHANGED <<input, op, dict, tree, self, node_ids, out>>

\* parse_dictionary up to its loop: the tag, and the empty HashMap.
DictBegun(t) ==
    IF t.ok
    THEN pc' = "dict_loop" /\ c_input' = t.rest /\ res' = res
    ELSE pc' = "done" /\ c_input' = c_input /\ res' = t

ParseDictBegin ==
    /\ pc = "idle"
    /\ op' = "parse_dictionary"
    /\ DictBegun(TagComplete(ByteD, input))
    /\ UNCHANGED <<input, elems, dict, tree, self, node_ids, out>>

\* One pass of parse_dictionary's loop.
DictStep(it) ==
    IF it.loop
    THEN pc' = pc /\ c_input' = it.c /\ dict' = it.acc /\ res' = res
    ELSE pc' = "done" /\ c_input' = c_input /\ dict' = dict /\ res' = it.ret

ParseDictIter ==
    /\ pc = "dict_loop"
    /\ DictStep(DictIter(c_input, dict))
    /\ UNCHANGED <<input, op, elems, tree, self, node_ids, out>>

Next ==
    \/ CallFromSlice
    \/ CallParse
    \/ CallParseInteger
    \/ CallParseString
    \/ ParseListBegin
    \/ ParseListIter
    \/ ParseDictBegin
    \/ ParseDictIter

Spec == Init /\ [][Next]_vars

\* SpecLive: the same calls from a single initial state, into which the
\* input is received (the structural bytes and the digits of Alphabet).
\* Each call runs to its return: nothing suspends a step that can be taken.
LiveAlphabet == Alphabet \ {ByteMinus, 255}

InitLive == pc = "start" /\ Idle(<<>>, NoTree)

Receive ==
    /\ pc = "start"
    /\ pc' = "idle"
    /\ input' \in StringsOver(LiveAlphabet, MaxLiveLen)
    /\ UNCHANGED <<op, c_input, elems, dict, res, tree, self, node_ids, out>>

NextLive == Receive \/ Next

SpecLive == InitLive /\ [][NextLive]_vars /\ WF_vars(NextLive)

(***************************************************************************)
(* SpecTree: a syntax tree is grown, written out, and the bytes decoded.   *)
(***************************************************************************)
InitTree ==
    \E t \in LeafTrees \cup {ListT(<<>>), DictT(<<>>)} :
        pc = "build" /\ Idle(<<>>, t)

Grow(t) ==
    /\ pc = "build"
    /\ Len(Wire(t)) <= MaxWire
    /\ tree' = t
    /\ UNCHANGED <<input, pc, op, c_input, elems, dict, res, self, node_ids, out>>

AppendElem ==
    \E x \in LeafTrees :
        tree.tag = "List" /\ Grow(ListT(Append(tree.elems, x)))

AppendPair ==
    \E k \in Texts, x \in LeafTrees :
        tree.tag = "Dictionary" /\ Grow(DictT(Append(tree.pairs, <<k, x>>)))

WrapList == Grow(ListT(<<tree>>))

WrapDict == \E k \in Texts : Grow(DictT(<<<<k, tree>>>>))

Submit ==
    /\ pc = "build"
    /\ pc' = "idle"
    /\ input' = Wire(tree)
    /\ UNCHANGED <<op, c_input, elems, dict, res, tree, self, node_ids, out>>

NextTree ==
    \/ AppendElem
    \/ AppendPair
    \/ WrapList
    \/ WrapDict
    \/ Submit
    \/ Next

SpecTree == InitTree /\ [][NextTree]_vars

(***************************************************************************)
(* SpecNode: distance and closest on identifiers of IdLen bytes that       *)
(* differ in their first and last bytes.                                   *)
(***************************************************************************)
MkId(hi, lo) == [k \in 1..IdLen |-> IF k = 1 THEN hi ELSE IF k = IdLen THEN lo ELSE 0]

NodeIds == {MkId(hi, lo) : hi \in {0, 1}, lo \in {0, 1, 255}}

CandidateLists == UNION {[1..k -> NodeIds] : k \in 0..MaxCand}

InitNode ==
    /\ pc = "node"
    /\ self \in NodeIds
    /\ node_ids \in CandidateLists
    /\ out = <<>>
    /\ input = <<>>
    /\ tree = NoTree
    /\ op = "none"
    /\ c_input = <<>>
    /\ elems = <<>>
    /\ dict = EmptyMap
    /\ res = NoResult

NodeReturn(name, r) ==
    /\ pc = "node"
    /\ pc' = "done"
    /\ op' = name
    /\ out' = r
    /\ UNCHANGED <<input, c_input, elems, dict, res, tree, self, node_ids>>

\* self.distance(&node_ids[n]), node_ids[n].distance(&self), self.distance(&self)
CallDistance ==
    \E n \in 1..Len(node_ids) :
        NodeReturn("distance",
                   [n |-> n,
                    there |-> Distance(self, node_ids[n]),
                    back |-> Distance(node_ids[n], self),
                    same |-> Distance(self, self)])

CallClosest == NodeReturn("closest", Closest(self, node_ids))

NextNode == CallDistance \/ CallClosest

SpecNode == InitNode /\ [][NextNode]_vars

(***************************************************************************)
(* The claims.                                                             *)
(***************************************************************************)
IsSuffix(r, s) == Len(r) <= Len(s) /\ r = Drop(s, Len(s) - Len(r))

Returned(name) == pc = "done" /\ op = name

\* C2: from_slice returns a value exactly when the dispatcher, called
\* once on the whole input, succeeds with an empty remainder, and the
\* value is the dispatcher's; a success that leaves bytes is no value.
FromSliceAgrees(r, p) ==
    /\ r.ok <=> (p.ok /\ Len(p.rest) = 0)
    /\ r.ok => r.val = p.val
    /\ (p.ok /\ Len(p.rest) >= 1) => ~r.ok

C2_FromSliceNeedsEmptyRemainder ==
    Returned("from_slice") => FromSliceAgrees(res, Parse(input))

\* from_slice has refused an input the dispatcher decodes with leftovers.
LeavesBytes(p) == p.ok /\ Len(p.rest) >= 1

C2_Witness == Returned("from_slice") /\ ~res.ok /\ LeavesBytes(Parse(input))

\* C4: an input whose string length prefix begins with '-' is rejected
\* by parse_string and by the dispatcher.
C4_MinusPrefixRejected ==
    (/\ pc = "done"
     /\ op \in {"parse_string", "parse"}
     /\ Len(input) >= 1
     /\ input[1] = ByteMinus) => ~res.ok

\* C5: when parse_string succeeds on <n> ':' <rest> with at least n bytes
\* in rest, the text is made of the first n bytes of rest, whatever they
\* are, and the remainder is rest without them.
RECURSIVE Zeros(_)
Zeros(z) == IF z = 0 THEN <<>> ELSE <<Digit0>> \o Zeros(z - 1)

\* input is the decimal n, under z zeros, then ':' and at least n bytes.
HasLengthPrefix(i, z, n) ==
    LET prefix == Zeros(z) \o DecimalDigits(n) \o <<ByteColon>>
    IN  /\ Len(i) >= Len(prefix) + n
        /\ Take(i, Len(prefix)) = prefix

Payload(i, z, n) == Take(Drop(i, z + Len(DecimalDigits(n)) + 1), n)
AfterPayload(i, z, n) == Drop(i, z + Len(DecimalDigits(n)) + 1 + n)

C5_StringTakesExactlyN ==
    (Returned("parse_string") /\ res.ok) =>
        \A z, n \in 0..Len(input) :
            HasLengthPrefix(input, z, n) =>
                /\ res.val = BString(FromUtf8Lossy(Payload(input, z, n)))
                /\ res.rest = AfterPayload(input, z, n)

\* A payload that is a structural byte, with bytes left after it.
C5_Witness ==
    /\ Returned("parse_string")
    /\ res.ok
    /\ HasLengthPrefix(input, 0, 1)
    /\ Payload(input, 0, 1)[1] \in {ByteE, ByteColon, ByteI, ByteL, ByteD}
    /\ Len(res.rest) >= 1

\* C9: at most one of the four productions succeeds on an input, and the
\* dispatcher's outcome is that of alt over the productions in any order.
Orders == {[k \in 1..4 |-> ParseOrder[p[k]]] : p \in Permutations(1..4)}

Succeeding(i) == {k \in 1..4 : Production(ParseOrder[k], i).ok}

C9_OrderDoesNotMatter ==
    Returned("parse") =>
        /\ Cardinality(Succeeding(input)) <= 1
        /\ \A order \in Orders : Alt(order, input) = res

\* The dispatcher has succeeded through its last alternative.
C9_Witness == Returned("parse") /\ res.ok /\ Succeeding(input) = {4}

\* C10: a successful call of the dispatcher returns a strictly shorter
\* suffix of its input; every pass of the loops of parse_list and
\* parse_dictionary returns or strictly shortens the cursor; and every
\* call reaches its return.
DispatcherShortens ==
    (Returned("parse") /\ res.ok) =>
        (Len(res.rest) < Len(input) /\ IsSuffix(res.rest, input))

PassShortens ==
    pc \in {"list_loop", "dict_loop"} =>
        \/ pc' = "done"
        \/ (pc' = pc /\ Len(c_input') < Len(c_input) /\ IsSuffix(c_input', c_input))

At(s, k, b) == k <= Len(s) /\ s[k] = b
DigitAt(s, k) == k <= Len(s) /\ IsDigit(s[k])

RECURSIVE DigitRun(_, _)
DigitRun(s, k) == IF DigitAt(s, k) THEN 1 + DigitRun(s, k + 1) ELSE 0

AfterSign(s, k) == IF At(s, k + 1, ByteMinus) THEN k + 2 ELSE k + 1
Declared(s, k) == DecimalValue(SubSeq(s, k, k + DigitRun(s, k) - 1))

WfIntEnd(s, k) ==
    LET j == AfterSign(s, k)
        d == DigitRun(s, j)
    IN  IF At(s, k, ByteI) /\ d >= 1 /\ At(s, j + d, ByteE) THEN j + d + 1 ELSE 0

WfStrEnd(s, k) ==
    LET d == DigitRun(s, k)
    IN  IF d >= 1 /\ At(s, k + d, ByteColon) /\ k + d + Declared(s, k) <= Len(s)
        THEN k + d + 1 + Declared(s, k)
        ELSE 0

RECURSIVE WfEnd(_, _), WfListRest(_, _), WfDictRest(_, _)
WfEnd(s, k) ==
    IF At(s, k, ByteI) THEN WfIntEnd(s, k)
    ELSE IF DigitAt(s, k) THEN WfStrEnd(s, k)
    ELSE IF At(s, k, ByteL) THEN WfListRest(s, k + 1)
    ELSE IF At(s, k, ByteD) THEN WfDictRest(s, k + 1)
    ELSE 0

WfListRest(s, k) ==
    IF At(s, k, ByteE) THEN k + 1
    ELSE LET j == WfEnd(s, k) IN IF j = 0 THEN 0 ELSE WfListRest(s, j)

WfDictRest(s, k) ==
    IF At(s, k, ByteE) THEN k + 1
    ELSE LET j == WfStrEnd(s, k)
             m == WfEnd(s, j)
         IN  IF j = 0 THEN 0 ELSE IF m = 0 THEN 0 ELSE WfDictRest(s, m)

\* The places <<k, kind>> the grammar comes to when a value is expected
\* at k: "value", "key" (of a dictionary) or "entry" (the value of a key).
RECURSIVE ValuePlaces(_, _), ElemPlaces(_, _), KeyPlaces(_, _), EntryPlaces(_, _)
ValuePlaces(s, k) ==
    {<<k, "value">>}
    \cup (IF At(s, k, ByteL) THEN ElemPlaces(s, k + 1) ELSE {})
    \cup (IF At(s, k, ByteD) THEN KeyPlaces(s, k + 1) ELSE {})

ElemPlaces(s, k) ==
    IF At(s, k, ByteE) THEN {}
    ELSE ValuePlaces(s, k)
         \cup (LET j == WfEnd(s, k) IN IF j = 0 THEN {} ELSE ElemPlaces(s, j))

KeyPlaces(s, k) ==
    IF At(s, k, ByteE) THEN {}
    ELSE {<<k, "key">>}
         \cup (LET j == WfStrEnd(s, k) IN IF j = 0 THEN {} ELSE EntryPlaces(s, j))

EntryPlaces(s, k) ==
    {<<k, "entry">>}
    \cup ValuePlaces(s, k)
    \cup (LET j == WfEnd(s, k) IN IF j = 0 THEN {} ELSE KeyPlaces(s, j))

Places(s) == ValuePlaces(s, 1)

NoDigits(s, k) == At(s, k, ByteI) /\ ~DigitAt(s, AfterSign(s, k))

NoTerminator(s, k) ==
    LET j == AfterSign(s, k)
        d == DigitRun(s, j)
    IN  At(s, k, ByteI) /\ d >= 1 /\ ~At(s, j + d, ByteE)

TooShort(s, k) ==
    LET d == DigitRun(s, k)
    IN  d >= 1 /\ At(s, k + d, ByteColon) /\ Declared(s, k) > Len(s) - (k + d)

NoEntry(s, k) == k > Len(s) \/ At(s, k, ByteE)

MalformedAt(s, p) ==
    \/ NoDigits(s, p[1]) /\ p[2] # "key"
    \/ NoTerminator(s, p[1]) /\ p[2] # "key"
    \/ TooShort(s, p[1])
    \/ NoEntry(s, p[1]) /\ p[2] = "entry"

Malformed(s) == \E p \in Places(s) : MalformedAt(s, p)

C3_MalformedFails ==
    (Returned("from_slice") /\ Malformed(input)) => ~res.ok

\* from_slice has failed on input whose malformed item is nested.
C3_Witness ==
    /\ Returned("from_slice")
    /\ ~res.ok
    /\ \E p \in Places(input) : p[1] >= 2 /\ MalformedAt(input, p)

\* C1: a tree in which no dictionary repeats a key is a value, and what
\* is written from it by the wire grammar is an encoding of that value;
\* the dispatcher decodes it to the value with an empty remainder, and
\* from_slice returns the value.
PairKeys(ps) == {ps[n][1] : n \in 1..Len(ps)}

LastIndex(ps, k) ==
    CHOOSE n \in 1..Len(ps) :
        ps[n][1] = k /\ \A m \in (n + 1)..Len(ps) : ps[m][1] # k

RECURSIVE ValueOf(_)
ValueOf(t) ==
    CASE t.tag = "Integer" -> BInteger(t.n)
      [] t.tag = "String" -> BString(t.s)
      [] t.tag = "List" -> BList([n \in 1..Len(t.elems) |-> ValueOf(t.elems[n])])
      [] t.tag = "Dictionary" ->
            BDictionary([k \in PairKeys(t.pairs) |->
                            ValueOf(t.pairs[LastIndex(t.pairs, k)][2])])

RECURSIVE NoDupKeys(_)
NoDupKeys(t) ==
    CASE t.tag = "List" -> \A n \in 1..Len(t.elems) : NoDupKeys(t.elems[n])
      [] t.tag = "Dictionary" ->
            /\ Cardinality(PairKeys(t.pairs)) = Len(t.pairs)
            /\ \A n \in 1..Len(t.pairs) : NoDupKeys(t.pairs[n][2])
      [] OTHER -> TRUE

C1_RoundTrip ==
    (pc = "done" /\ NoDupKeys(tree)) =>
        /\ op = "parse" => res = Ok(<<>>, ValueOf(tree))
        /\ op = "from_slice" => res = [ok |-> TRUE, val |-> ValueOf(tree)]

\* from_slice has decoded a dictionary of two keys, the first a list.
C1_Witness ==
    /\ Returned("from_slice")
    /\ res.ok
    /\ NoDupKeys(tree)
    /\ tree.tag = "Dictionary"
    /\ Len(tree.pairs) = 2
    /\ tree.pairs[1][2].tag = "List"
    /\ Len(tree.pairs[1][2].elems) >= 1

\* C8: the decoded dictionary has each key of the encoded one once, with
\* the value of the key's last occurrence, whatever came before it.
C8_LastOccurrenceWins ==
    (/\ pc = "done"
     /\ op \in {"parse_dictionary", "parse"}
     /\ tree.tag = "Dictionary") =>
        /\ res.ok
        /\ res.val.tag = "Dictionary"
        /\ DOMAIN res.val.dict = PairKeys(tree.pairs)
        /\ \A k \in PairKeys(tree.pairs) :
               res.val.dict[k] = ValueOf(tree.pairs[LastIndex(tree.pairs, k)][2])

\* A key comes first and third with different values, another in between.
C8_Witness ==
    /\ Returned("parse_dictionary")
    /\ res.ok
    /\ tree.tag = "Dictionary"
    /\ Len(tree.pairs) = 3
    /\ tree.pairs[1][1] = tree.pairs[3][1]
    /\ tree.pairs[2][1] # tree.pairs[1][1]
    /\ ValueOf(tree.pairs[1][2]) # ValueOf(tree.pairs[3][2])

\* C6: closest returns self for no candidates, and otherwise the
\* candidate at the smallest index among those nearest to self.  The
\* distances are compared here as the identifiers' bytewise exclusive or,
\* at full width, from the high byte down.
FixedXor(a, b) == [k \in 1..IdLen |-> XorByte(a[k], b[k])]

LexLess(x, y) ==
    \E k \in 1..IdLen : x[k] < y[k] /\ \A j \in 1..(k - 1) : x[j] = y[j]

Nearest(n) ==
    \A m \in 1..Len(node_ids) :
        ~LexLess(FixedXor(self, node_ids[m]), FixedXor(self, node_ids[n]))

FirstNearest(n) == Nearest(n) /\ \A m \in 1..(n - 1) : ~Nearest(m)

C6_ClosestIsFirstNearest ==
    Returned("closest") =>
        IF Len(node_ids) = 0 THEN out = self
        ELSE \E n \in 1..Len(node_ids) :
                /\ FirstNearest(n)
                /\ ClosestIndex(self, node_ids) = n
                /\ out = node_ids[n]

\* The nearest candidate comes second and third, a farther one first.
C6_Witness ==
    /\ Returned("closest")
    /\ Len(node_ids) = 3
    /\ node_ids[2] = node_ids[3]
    /\ node_ids[1] # node_ids[2]
    /\ out = node_ids[2]

\* C7: distance is the exclusive or, bit by bit, of the two identifiers
\* read as big-endian numbers; it is symmetric, and zero from an
\* identifier to itself.
RECURSIVE Pow2(_)
Pow2(j) == IF j = 0 THEN 1 ELSE 2 * Pow2(j - 1)

Bit(b, j) == (b \div Pow2(j)) % 2

\* The number x at the width of an identifier.
Widen(x) == [k \in 1..IdLen |-> IF k <= IdLen - Len(x) THEN 0 ELSE x[k - (IdLen - Len(x))]]

IsXorOf(x, a, b) ==
    /\ Len(x) <= IdLen
    /\ Len(x) = 0 \/ x[1] # 0
    /\ \A k \in 1..IdLen, j \in 0..7 :
           Bit(Widen(x)[k], j) = (IF Bit(a[k], j) = Bit(b[k], j) THEN 0 ELSE 1)

C7_DistanceIsXor ==
    Returned("distance") =>
        /\ IsXorOf(out.there, self, node_ids[out.n])
        /\ out.there = out.back
        /\ out.same = <<>>

\* A distance that is not zero, between identifiers with equal high bytes.
C7_Witness ==
    /\ Returned("distance")
    /\ Len(out.there) >= 1
    /\ Len(out.there) < IdLen
    /\ self[1] = 1
====
